---- MODULE Spec2Model ----
(***************************************************************************)
(* Option<T> (OptionSome / OptionNone) and Result<T,E> (ResultOk /         *)
(* ResultErr) of src/src/index.ts.                                         *)
(*                                                                         *)
(* Instances live in a heap and are named by their position in it, so that *)
(* "returns this" and "returns a new instance" are different outcomes.     *)
(* Every method is an operator from (heap, receiver, arguments) to an      *)
(* outcome: the heap after the call, whether the call returned or threw,   *)
(* the value returned, the message of the Error thrown, and the list of    *)
(* argument lists the supplied mapper was invoked with.                    *)
(***************************************************************************)
EXTENDS Integers, Sequences, FiniteSets

VARIABLES heap, origin, last

vars == <<heap, origin, last>>

(* The number of instances a run may construct. *)
MaxHeap == 3

----------------------------------------------------------------------------
(* JavaScript values that instances carry and calls return: undefined, NaN, *)
(* the other numbers, the booleans and references to instances.  A string  *)
(* (a message, the message of an Error) is the sequence of its characters. *)

Undefined == [t |-> "undefined", n |-> 0]
NaN == [t |-> "NaN", n |-> 0]
Num(k) == [t |-> "number", n |-> k]
Bool(b) == [t |-> "boolean", n |-> IF b THEN 1 ELSE 0]
Ref(i) == [t |-> "object", n |-> i]

(* a === b : NaN is the one value that is not strictly equal to itself;    *)
(* objects are equal when they are the same object.                        *)
StrictEquals(a, b) ==
  IF a.t = "NaN" \/ b.t = "NaN" THEN FALSE ELSE a = b

Digit(d) == <<"0", "1", "2", "3", "4", "5", "6", "7", "8", "9">>[d + 1]

RECURSIVE Digits(_)
Digits(k) == IF k < 10 THEN <<Digit(k)>> ELSE Digits(k \div 10) \o <<Digit(k % 10)>>

(* What `"..." + v` appends for v: the string conversion of a primitive,   *)
(* and Object.prototype.toString for an instance (no class overrides it).  *)
ToString(v) ==
  CASE v.t = "number" -> Digits(v.n)
    [] v.t = "NaN" -> <<"N", "a", "N">>
    [] v.t = "undefined" -> <<"u", "n", "d", "e", "f", "i", "n", "e", "d">>
    [] v.t = "boolean" -> IF v.n = 1 THEN <<"t", "r", "u", "e">>
                          ELSE <<"f", "a", "l", "s", "e">>
    [] v.t = "object" -> <<"[", "o", "b", "j", "e", "c", "t", " ",
                           "O", "b", "j", "e", "c", "t", "]">>

(* sub occurs in str as a contiguous run of characters. *)
Contains(str, sub) ==
  \E i \in 0..(Len(str) - Len(sub)) :
    \A j \in 1..Len(sub) : str[i + j] = sub[j]

----------------------------------------------------------------------------
(* Instances.  A field the class does not declare reads as undefined.      *)

OptionSome(value) == [cls |-> "OptionSome", value |-> value, error |-> Undefined]
OptionNone == [cls |-> "OptionNone", value |-> Undefined, error |-> Undefined]
ResultOk(value) == [cls |-> "ResultOk", value |-> value, error |-> Undefined]
ResultErr(error) == [cls |-> "ResultErr", value |-> Undefined, error |-> error]

(* Outcomes of a call. *)
Return(h, v, calls) ==
  [heap |-> h, kind |-> "return", ret |-> v, detail |-> <<>>, calls |-> calls]
Throw(h, msg, calls) ==
  [heap |-> h, kind |-> "throw", ret |-> Undefined, detail |-> msg, calls |-> calls]

(* `new C(...)`: the instance is appended and its reference returned. *)
New(h, obj, calls) == Return(Append(h, obj), Ref(Len(h) + 1), calls)

(* The four exported constructors. *)
ok(h, value) == New(h, ResultOk(value), <<>>)
err(h, error) == New(h, ResultErr(error), <<>>)
(* A slip for some: the value not handed to the constructor. *)
some_empty(h, value) == New(h, OptionSome(Undefined), <<>>)
some(h, value) == New(h, OptionSome(value), <<>>)
none(h) == New(h, OptionNone, <<>>)

----------------------------------------------------------------------------
(* Mappers: the functions callers hand to the combinators, each with the   *)
(* outcome of one invocation on the argument list args.  A parameter the   *)
(* caller omits is undefined inside the function.                          *)

Param(args) == IF Len(args) >= 1 THEN args[1] ELSE Undefined

(* The instance a closure has captured: the first one of the family that   *)
(* the caller constructed.                                                 *)
Captured(h, classes) ==
  CHOOSE i \in DOMAIN h :
    h[i].cls \in classes /\ \A j \in 1..(i - 1) : h[j].cls \notin classes

MapperBody(mapper, h, args) ==
  CASE mapper = "num42" -> Return(h, Num(42), <<>>)
    [] mapper = "undef" -> Return(h, Undefined, <<>>)
    [] mapper = "none" -> none(h)
    [] mapper = "some" -> some(h, Param(args))
    [] mapper = "ok" -> ok(h, Param(args))
    [] mapper = "err" -> err(h, Param(args))
    [] mapper = "anOption"
         -> Return(h, Ref(Captured(h, {"OptionSome", "OptionNone"})), <<>>)
    [] mapper = "aResult"
         -> Return(h, Ref(Captured(h, {"ResultOk", "ResultErr"})), <<>>)
    [] mapper = "throws" -> Throw(h, <<"A", "s", "s", "e", "r", "t">>, <<>>)

(* mapper(...args): the outcome of the body, with the invocation recorded. *)
Invoke(mapper, h, args) ==
  [MapperBody(mapper, h, args) EXCEPT !.calls = <<args>>]

(* Mappers by the return type the signatures ask for. *)
ValueMappers == {"num42", "undef", "none", "throws"}
OptionMappers == {"some", "none", "anOption", "throws"}
ResultMappers == {"ok", "err", "aResult", "throws"}

----------------------------------------------------------------------------
(* class OptionSome<T> *)

OptionSome_some == TRUE
OptionSome_none == FALSE

OptionSome_expect(h, this) == Return(h, h[this].value, <<>>)
OptionSome_unwrap(h, this) == Return(h, h[this].value, <<>>)
OptionSome_unwrap_or(h, this) == Return(h, h[this].value, <<>>)

OptionSome_and_then(h, this, mapper) == Invoke(mapper, h, <<h[this].value>>)

OptionSome_or_else(h, this) == Return(h, Ref(this), <<>>)

(* A slip for OptionSome_map: this.value = mapper(this.value); return this. *)
OptionSome_map_inplace(h, this, mapper) ==
  LET r == Invoke(mapper, h, <<h[this].value>>)
  IN IF r.kind = "throw" THEN r
     ELSE Return([r.heap EXCEPT ![this].value = r.ret], Ref(this), r.calls)

(* new OptionSome(mapper(this.value)): a throw of the mapper leaves before *)
(* the constructor runs.                                                   *)
OptionSome_map(h, this, mapper) ==
  LET r == Invoke(mapper, h, <<h[this].value>>)
  IN IF r.kind = "throw" THEN r ELSE New(r.heap, OptionSome(r.ret), r.calls)

OptionSome_to_result(h, this) == New(h, ResultOk(h[this].value), <<>>)

(* class OptionNone *)

OptionNone_some == FALSE
OptionNone_none == TRUE

OptionNone_expect(h, this, msg) == Throw(h, msg, <<>>)
OptionNone_unwrap(h, this) ==
  Throw(h, <<"T", "r", "i", "e", "d", " ", "t", "o", " ", "u", "n", "w", "r",
             "a", "p", " ", "N", "o", "n", "e">>, <<>>)
OptionNone_unwrap_or(h, this, val) == Return(h, val, <<>>)

OptionNone_and_then(h, this) == Return(h, Ref(this), <<>>)

OptionNone_or_else(h, this, mapper) == Invoke(mapper, h, <<>>)

OptionNone_map(h, this) == Return(h, Ref(this), <<>>)

(* A slip for OptionNone_to_result: the supplied error dropped. *)
OptionNone_to_result_lost(h, this, error) == New(h, ResultErr(Undefined), <<>>)
OptionNone_to_result(h, this, error) == New(h, ResultErr(error), <<>>)

----------------------------------------------------------------------------
(* class ResultOk<T> *)

ResultOk_ok == TRUE
ResultOk_err == FALSE

ResultOk_expect(h, this) == Return(h, h[this].value, <<>>)
ResultOk_expect_err(h, this, msg) == Throw(h, msg, <<>>)
ResultOk_unwrap(h, this) == Return(h, h[this].value, <<>>)
ResultOk_unwrap_or(h, this) == Return(h, h[this].value, <<>>)

(* A slip for ResultOk_and_then: the mapper's result wrapped, as map does. *)
ResultOk_and_then_wrap(h, this, mapper) ==
  LET r == Invoke(mapper, h, <<h[this].value>>)
  IN IF r.kind = "throw" THEN r ELSE New(r.heap, ResultOk(r.ret), r.calls)
ResultOk_and_then(h, this, mapper) == Invoke(mapper, h, <<h[this].value>>)

ResultOk_or_else(h, this) == Return(h, Ref(this), <<>>)

ResultOk_map(h, this, func) ==
  LET r == Invoke(func, h, <<h[this].value>>)
  IN IF r.kind = "throw" THEN r ELSE New(r.heap, ResultOk(r.ret), r.calls)

ResultOk_map_err(h, this) == Return(h, Ref(this), <<>>)

(* A slip for ResultOk_to_option: new OptionSome(this). *)
ResultOk_to_option_self(h, this) == New(h, OptionSome(Ref(this)), <<>>)
ResultOk_to_option(h, this) == New(h, OptionSome(h[this].value), <<>>)

(* class ResultErr<E> *)

ResultErr_valid == FALSE
(* A slip for ResultErr_ok: the getter of ResultOk copied. *)
ResultErr_ok_true == TRUE
ResultErr_ok == FALSE
ResultErr_err == TRUE

Original == <<"\n", "O", "r", "i", "g", "i", "n", "a", "l", " ">>
TriedToUnwrapError ==
  <<"T", "r", "i", "e", "d", " ", "t", "o", " ", "u", "n", "w", "r", "a", "p",
    " ", "E", "r", "r", "o", "r">>

(* A slip for ResultErr_expect: the error left out of the message. *)
ResultErr_expect_bare(h, this, msg) == Throw(h, msg, <<>>)
ResultErr_expect(h, this, msg) ==
  Throw(h, msg \o Original \o ToString(h[this].error), <<>>)
ResultErr_expect_err(h, this) == Return(h, h[this].error, <<>>)
ResultErr_unwrap(h, this) ==
  Throw(h, TriedToUnwrapError \o Original \o ToString(h[this].error), <<>>)
(* A slip for ResultErr_unwrap_or: the error returned, not the default. *)
ResultErr_unwrap_or_error(h, this, val) == Return(h, h[this].error, <<>>)
ResultErr_unwrap_or(h, this, val) == Return(h, val, <<>>)

ResultErr_and_then(h, this) == Return(h, Ref(this), <<>>)

ResultErr_or_else(h, this, mapper) == Invoke(mapper, h, <<h[this].error>>)

(* A slip for ResultErr_map: a copy of the receiver instead of the receiver. *)
ResultErr_map_copy(h, this) == New(h, ResultErr(h[this].error), <<>>)
ResultErr_map(h, this) == Return(h, Ref(this), <<>>)

(* A slip for ResultErr_map_err: the mapper's result returned unwrapped. *)
ResultErr_map_err_flat(h, this, mapper) == Invoke(mapper, h, <<h[this].error>>)
ResultErr_map_err(h, this, mapper) ==
  LET r == Invoke(mapper, h, <<h[this].error>>)
  IN IF r.kind = "throw" THEN r ELSE New(r.heap, ResultErr(r.ret), r.calls)

(* A slip for ResultErr_to_option: new OptionSome(this.unwrap). *)
ResultErr_to_option_unwrap(h, this) ==
  Throw(h, TriedToUnwrapError \o Original \o ToString(h[this].error), <<>>)
ResultErr_to_option(h, this) == New(h, OptionNone, <<>>)

----------------------------------------------------------------------------
(* Property reads o.some, o.none, o.ok, o.err through the class's getter.  *)

dot_some(o) == IF o.cls = "OptionSome" THEN OptionSome_some ELSE OptionNone_some
dot_none(o) == IF o.cls = "OptionSome" THEN OptionSome_none ELSE OptionNone_none
dot_ok(o) == IF o.cls = "ResultOk" THEN ResultOk_ok ELSE ResultErr_ok
dot_err(o) == IF o.cls = "ResultOk" THEN ResultOk_err ELSE ResultErr_err

(* a && b on a boolean a: b is evaluated only when a is true. *)
OptionSome_compare(h, this, other) ==
  Return(h, Bool(dot_some(h[other])
                 /\ StrictEquals(h[this].value, h[other].value)), <<>>)
OptionNone_compare(h, this, other) ==
  Return(h, Bool(dot_none(h[other])), <<>>)
(* A slip for ResultOk_compare: the values compared without other.ok. *)
ResultOk_compare_untagged(h, this, other) ==
  Return(h, Bool(StrictEquals(h[this].value, h[other].value)), <<>>)
ResultOk_compare(h, this, other) ==
  Return(h, Bool(dot_ok(h[other])
                 /\ StrictEquals(h[this].value, h[other].value)), <<>>)
(* A slip for ResultErr_compare: the other side's value instead of its error. *)
ResultErr_compare_value(h, this, other) ==
  Return(h, Bool(dot_err(h[other])
                 /\ StrictEquals(h[this].error, h[other].value)), <<>>)
ResultErr_compare(h, this, other) ==
  Return(h, Bool(dot_err(h[other])
                 /\ StrictEquals(h[this].error, h[other].error)), <<>>)

----------------------------------------------------------------------------
(* Method calls x.m(...) on the instance x, dispatched on its class.  An   *)
(* argument passed to a method that declares no parameter is dropped.      *)

IsOption(o) == o.cls \in {"OptionSome", "OptionNone"}
IsResult(o) == o.cls \in {"ResultOk", "ResultErr"}

dot_expect(h, this, msg) ==
  CASE h[this].cls = "OptionSome" -> OptionSome_expect(h, this)
    [] h[this].cls = "OptionNone" -> OptionNone_expect(h, this, msg)
    [] h[this].cls = "ResultOk" -> ResultOk_expect(h, this)
    [] h[this].cls = "ResultErr" -> ResultErr_expect(h, this, msg)

dot_expect_err(h, this, msg) ==
  CASE h[this].cls = "ResultOk" -> ResultOk_expect_err(h, this, msg)
    [] h[this].cls = "ResultErr" -> ResultErr_expect_err(h, this)

dot_unwrap(h, this) ==
  CASE h[this].cls = "OptionSome" -> OptionSome_unwrap(h, this)
    [] h[this].cls = "OptionNone" -> OptionNone_unwrap(h, this)
    [] h[this].cls = "ResultOk" -> ResultOk_unwrap(h, this)
    [] h[this].cls = "ResultErr" -> ResultErr_unwrap(h, this)

dot_unwrap_or(h, this, val) ==
  CASE h[this].cls = "OptionSome" -> OptionSome_unwrap_or(h, this)
    [] h[this].cls = "OptionNone" -> OptionNone_unwrap_or(h, this, val)
    [] h[this].cls = "ResultOk" -> ResultOk_unwrap_or(h, this)
    [] h[this].cls = "ResultErr" -> ResultErr_unwrap_or(h, this, val)

dot_and_then(h, this, mapper) ==
  CASE h[this].cls = "OptionSome" -> OptionSome_and_then(h, this, mapper)
    [] h[this].cls = "OptionNone" -> OptionNone_and_then(h, this)
    [] h[this].cls = "ResultOk" -> ResultOk_and_then(h, this, mapper)
    [] h[this].cls = "ResultErr" -> ResultErr_and_then(h, this)

dot_or_else(h, this, mapper) ==
  CASE h[this].cls = "OptionSome" -> OptionSome_or_else(h, this)
    [] h[this].cls = "OptionNone" -> OptionNone_or_else(h, this, mapper)
    [] h[this].cls = "ResultOk" -> ResultOk_or_else(h, this)
    [] h[this].cls = "ResultErr" -> ResultErr_or_else(h, this, mapper)

dot_map(h, this, mapper) ==
  CASE h[this].cls = "OptionSome" -> OptionSome_map(h, this, mapper)
    [] h[this].cls = "OptionNone" -> OptionNone_map(h, this)
    [] h[this].cls = "ResultOk" -> ResultOk_map(h, this, mapper)
    [] h[this].cls = "ResultErr" -> ResultErr_map(h, this)

dot_map_err(h, this, mapper) ==
  CASE h[this].cls = "ResultOk" -> ResultOk_map_err(h, this)
    [] h[this].cls = "ResultErr" -> ResultErr_map_err(h, this, mapper)

dot_compare(h, this, other) ==
  CASE h[this].cls = "OptionSome" -> OptionSome_compare(h, this, other)
    [] h[this].cls = "OptionNone" -> OptionNone_compare(h, this, other)
    [] h[this].cls = "ResultOk" -> ResultOk_compare(h, this, other)
    [] h[this].cls = "ResultErr" -> ResultErr_compare(h, this, other)

dot_to_result(h, this, error) ==
  CASE h[this].cls = "OptionSome" -> OptionSome_to_result(h, this)
    [] h[this].cls = "OptionNone" -> OptionNone_to_result(h, this, error)

dot_to_option(h, this) ==
  CASE h[this].cls = "ResultOk" -> ResultOk_to_option(h, this)
    [] h[this].cls = "ResultErr" -> ResultErr_to_option(h, this)

----------------------------------------------------------------------------
(* The caller: a program that constructs instances and calls their methods *)
(* one after another, each call on any instance constructed so far.        *)

Payloads == {Num(42), Undefined, NaN}
Messages == {<<"Y", "O", "Y", "O">>, <<"m">>}
NoMessage == <<>>

NoMapper == ""

(* What the caller holds between two calls: no outcome. *)
NoCall ==
  [op |-> "", this |-> 0, arg |-> Undefined, msg |-> NoMessage,
   mapper |-> NoMapper,
   kind |-> "return", ret |-> Undefined, detail |-> <<>>, calls |-> <<>>]

(* The step of the caller that makes a call with outcome r: the heap is    *)
(* the one the call leaves, origin records for each new instance the       *)
(* instance a conversion made it from (0 for any other), and last is what  *)
(* the caller observes of the call.                                        *)
Step(op, this, arg, msg, mapper, r, from) ==
  /\ Len(r.heap) <= MaxHeap
  /\ heap' = r.heap
  /\ origin' = origin \o [i \in 1..(Len(r.heap) - Len(heap)) |-> from]
  /\ last' = [op |-> op, this |-> this, arg |-> arg, msg |-> msg,
              mapper |-> mapper,
              kind |-> r.kind, ret |-> r.ret, detail |-> r.detail,
              calls |-> r.calls]

Init ==
  /\ heap = <<>>
  /\ origin = <<>>
  /\ last = NoCall

(* The caller is done with the outcome of its last call (it has asserted   *)
(* on the value returned, or caught the Error) and goes on.                *)
Continue ==
  /\ last # NoCall
  /\ last' = NoCall
  /\ UNCHANGED <<heap, origin>>

(* The calls.  The caller is sequential: it makes a call only when it is   *)
(* done with the outcome of the call before (last = NoCall).               *)

Call_ok ==
  /\ last = NoCall
  /\ \E v \in Payloads :
       Step("ok", 0, v, NoMessage, NoMapper, ok(heap, v), 0)

Call_err ==
  /\ last = NoCall
  /\ \E e \in Payloads :
       Step("err", 0, e, NoMessage, NoMapper, err(heap, e), 0)

Call_some ==
  /\ last = NoCall
  /\ \E v \in Payloads :
       Step("some", 0, v, NoMessage, NoMapper, some(heap, v), 0)

Call_none ==
  /\ last = NoCall
  /\ Step("none", 0, Undefined, NoMessage, NoMapper, none(heap), 0)

Call_expect ==
  /\ last = NoCall
  /\ \E this \in DOMAIN heap, msg \in Messages :
       Step("expect", this, Undefined, msg, NoMapper,
            dot_expect(heap, this, msg), 0)

Call_expect_err ==
  /\ last = NoCall
  /\ \E this \in DOMAIN heap, msg \in Messages :
       /\ IsResult(heap[this])
       /\ Step("expect_err", this, Undefined, msg, NoMapper,
               dot_expect_err(heap, this, msg), 0)

Call_unwrap ==
  /\ last = NoCall
  /\ \E this \in DOMAIN heap :
       Step("unwrap", this, Undefined, NoMessage, NoMapper,
            dot_unwrap(heap, this), 0)

Call_unwrap_or ==
  /\ last = NoCall
  /\ \E this \in DOMAIN heap, val \in Payloads :
       Step("unwrap_or", this, val, NoMessage, NoMapper,
            dot_unwrap_or(heap, this, val), 0)

Call_and_then ==
  /\ last = NoCall
  /\ \E this \in DOMAIN heap, mapper \in OptionMappers \cup ResultMappers :
       /\ mapper \in (IF IsOption(heap[this]) THEN OptionMappers
                      ELSE ResultMappers)
       /\ Step("and_then", this, Undefined, NoMessage, mapper,
               dot_and_then(heap, this, mapper), 0)

Call_or_else ==
  /\ last = NoCall
  /\ \E this \in DOMAIN heap, mapper \in OptionMappers \cup ResultMappers :
       /\ mapper \in (IF IsOption(heap[this]) THEN OptionMappers
                      ELSE ResultMappers)
       /\ Step("or_else", this, Undefined, NoMessage, mapper,
               dot_or_else(heap, this, mapper), 0)

Call_map ==
  /\ last = NoCall
  /\ \E this \in DOMAIN heap, mapper \in ValueMappers :
       Step("map", this, Undefined, NoMessage, mapper,
            dot_map(heap, this, mapper), 0)

Call_map_err ==
  /\ last = NoCall
  /\ \E this \in DOMAIN heap, mapper \in ValueMappers :
       /\ IsResult(heap[this])
       /\ Step("map_err", this, Undefined, NoMessage, mapper,
               dot_map_err(heap, this, mapper), 0)

Call_compare ==
  /\ last = NoCall
  /\ \E this \in DOMAIN heap, other \in DOMAIN heap :
       /\ IsOption(heap[this]) = IsOption(heap[other])
       /\ Step("compare", this, Ref(other), NoMessage, NoMapper,
               dot_compare(heap, this, other), 0)

Call_to_result ==
  /\ last = NoCall
  /\ \E this \in DOMAIN heap, error \in Payloads :
       /\ IsOption(heap[this])
       /\ Step("to_result", this, error, NoMessage, NoMapper,
               dot_to_result(heap, this, error), this)

Call_to_option ==
  /\ last = NoCall
  /\ \E this \in DOMAIN heap :
       /\ IsResult(heap[this])
       /\ Step("to_option", this, Undefined, NoMessage, NoMapper,
               dot_to_option(heap, this), this)

Next ==
  \/ Call_ok
  \/ Call_err
  \/ Call_some
  \/ Call_none
  \/ Call_expect
  \/ Call_expect_err
  \/ Call_unwrap
  \/ Call_unwrap_or
  \/ Call_and_then
  \/ Call_or_else
  \/ Call_map
  \/ Call_map_err
  \/ Call_compare
  \/ Call_to_result
  \/ Call_to_option
  \/ Continue

Spec == Init /\ [][Next]_vars

----------------------------------------------------------------------------
(* Properties.  Cls(i) is the class of instance i; the receiver of the     *)
(* call in last is last.this, and a primed last with the unprimed heap     *)
(* speaks of a call and the heap it was made on.                           *)

Cls(h, i) == h[i].cls

(* The call l is a combinator on the variant for which it is a no-op. *)
InactiveCall(h, l) ==
  \/ l.op \in {"and_then", "map"} /\ Cls(h, l.this) \in {"OptionNone", "ResultErr"}
  \/ l.op = "or_else" /\ Cls(h, l.this) \in {"OptionSome", "ResultOk"}
  \/ l.op = "map_err" /\ Cls(h, l.this) = "ResultOk"

(* The call l is and_then / or_else on the variant that invokes the mapper. *)
ActiveBind(h, l) ==
  \/ l.op = "and_then" /\ Cls(h, l.this) \in {"OptionSome", "ResultOk"}
  \/ l.op = "or_else" /\ Cls(h, l.this) \in {"OptionNone", "ResultErr"}

(* The call l is map / map_err on the variant whose payload it transforms. *)
ActiveMap(h, l) ==
  \/ l.op = "map" /\ Cls(h, l.this) \in {"OptionSome", "ResultOk"}
  \/ l.op = "map_err" /\ Cls(h, l.this) = "ResultErr"

(* The argument list the active variant hands to the mapper. *)
MapperArgs(h, l) ==
  CASE Cls(h, l.this) \in {"OptionSome", "ResultOk"} -> <<h[l.this].value>>
    [] Cls(h, l.this) = "ResultErr" -> <<h[l.this].error>>
    [] Cls(h, l.this) = "OptionNone" -> <<>>

C2_BindReturnsMapperResult ==
  [][ActiveBind(heap, last')
       => LET args == MapperArgs(heap, last')
              r == MapperBody(last'.mapper, heap, args)
          IN /\ last'.calls = <<args>>
             /\ last'.kind = r.kind
             /\ last'.ret = r.ret
             /\ last'.detail = r.detail
             /\ heap' = r.heap]_vars

(* ok(v).and_then(v => err(v)) has returned the ResultErr the mapper made. *)
C2_Witness ==
  /\ last.op = "and_then"
  /\ Cls(heap, last.this) = "ResultOk"
  /\ last.mapper = "err"
  /\ last.kind = "return"
  /\ heap[last.ret.n] = ResultErr(heap[last.this].value)

TotalOps ==
  {"map", "map_err", "and_then", "or_else", "compare", "to_result", "to_option"}

(* C3, as claimed: map, map_err, and_then, or_else, compare, to_result and *)
(* to_option return a value and do not throw, whatever the instance and    *)
(* the arguments.                                                          *)
C3_Original ==
  last.op \in TotalOps => last.kind = "return"

(* C3, amended: compare, to_result and to_option never throw; map,         *)
(* map_err, and_then and or_else throw only when they invoke the mapper    *)
(* and the mapper throws, and then with the mapper's Error.                *)
C3_ThrowsOnlyFromMapper ==
  (last.op \in TotalOps /\ last.kind = "throw")
    => /\ last.op \in {"map", "map_err", "and_then", "or_else"}
       /\ Len(last.calls) = 1
       /\ LET r == MapperBody(last.mapper, heap, last.calls[1])
          IN r.kind = "throw" /\ r.detail = last.detail

(* some(v).map(f) has thrown the Error of f, and f was invoked. *)
C3_Witness ==
  /\ last.op = "map"
  /\ Cls(heap, last.this) = "OptionSome"
  /\ last.kind = "throw"
  /\ Len(last.calls) = 1

(* C4: expect and unwrap on OptionNone and on ResultErr, and expect_err on *)
(* ResultOk, throw and return nothing; the Error's message contains the    *)
(* message passed (expect, expect_err), and on ResultErr it contains the   *)
(* string conversion of the error (expect and unwrap).                     *)
C4_WrongVariantThrows ==
  /\ (last.op \in {"expect", "unwrap"}
      /\ Cls(heap, last.this) \in {"OptionNone", "ResultErr"})
       => last.kind = "throw"
  /\ (last.op = "expect_err" /\ Cls(heap, last.this) = "ResultOk")
       => last.kind = "throw"
  /\ (\/ last.op = "expect" /\ Cls(heap, last.this) \in {"OptionNone", "ResultErr"}
      \/ last.op = "expect_err" /\ Cls(heap, last.this) = "ResultOk")
       => Contains(last.detail, last.msg)
  /\ (last.op \in {"expect", "unwrap"} /\ Cls(heap, last.this) = "ResultErr")
       => Contains(last.detail, ToString(heap[last.this].error))

(* err(42).expect("YOYO") has thrown. *)
C4_Witness ==
  /\ last.op = "expect"
  /\ Cls(heap, last.this) = "ResultErr"
  /\ heap[last.this].error = Num(42)
  /\ last.msg = <<"Y", "O", "Y", "O">>
  /\ last.kind = "throw"

(* The payload of an instance: the value, or the error of a ResultErr      *)
(* (OptionNone has none: its fields read undefined).                       *)
Payload(o) == IF o.cls = "ResultErr" THEN o.error ELSE o.value

(* C5, as claimed: x.compare(x) is true for every instance x, and          *)
(* a.compare(b) is true for a, b of the same variant with strictly equal   *)
(* payloads.                                                               *)
C5_Original ==
  (/\ last.op = "compare"
   /\ Cls(heap, last.this) = Cls(heap, last.arg.n)
   /\ \/ last.this = last.arg.n
      \/ StrictEquals(Payload(heap[last.this]), Payload(heap[last.arg.n])))
    => last.ret = Bool(TRUE)

(* C5, amended: for a and b of the same variant (a and b the same instance *)
(* included) that are both OptionNone or whose payloads are strictly equal *)
(* (so: whose payload is not NaN), a.compare(b) and b.compare(a) are true. *)
C5_CompareEqualPairs ==
  (/\ last.op = "compare"
   /\ Cls(heap, last.this) = Cls(heap, last.arg.n)
   /\ \/ Cls(heap, last.this) = "OptionNone"
      \/ StrictEquals(Payload(heap[last.this]), Payload(heap[last.arg.n])))
    => /\ last.ret = Bool(TRUE)
       /\ dot_compare(heap, last.arg.n, last.this).ret = Bool(TRUE)

(* err(42).compare(err(42)) on two instances has returned true. *)
C5_Witness ==
  /\ last.op = "compare"
  /\ last.this # last.arg.n
  /\ heap[last.this] = ResultErr(Num(42))
  /\ heap[last.arg.n] = ResultErr(Num(42))
  /\ last.ret = Bool(TRUE)

(* C6: compare of two instances of different variants returns false, in    *)
(* either direction and whatever the payloads (equal ones, undefined).     *)
C6_CrossVariantFalse ==
  (last.op = "compare" /\ Cls(heap, last.this) # Cls(heap, last.arg.n))
    => last.kind = "return" /\ last.ret = Bool(FALSE)

(* ok(undefined).compare(err(undefined)) has returned false. *)
C6_Witness ==
  /\ last.op = "compare"
  /\ heap[last.this] = ResultOk(Undefined)
  /\ heap[last.arg.n] = ResultErr(Undefined)
  /\ last.ret = Bool(FALSE)

(* Instance o is x.to_result(e).to_option for the OptionSome x. *)
RoundTrip(o, x) ==
  /\ Cls(heap, x) = "OptionSome"
  /\ origin[o] # 0
  /\ Cls(heap, origin[o]) = "ResultOk"
  /\ origin[origin[o]] = x

(* The call in last is o.compare(y) for a round trip o of some(v) = x and  *)
(* an OptionSome y carrying the same v.                                    *)
RoundTripCompare(x) ==
  /\ last.op = "compare"
  /\ RoundTrip(last.this, x)
  /\ Cls(heap, last.arg.n) = "OptionSome"
  /\ heap[last.arg.n].value = heap[x].value

(* C7, as claimed: some(v).to_result(e).to_option.compare(some(v)) is true *)
(* for all v and e.                                                        *)
C7_Original ==
  \A x \in DOMAIN heap : RoundTripCompare(x) => last.ret = Bool(TRUE)

(* C7, amended: some(v).to_result(e).to_option.compare(some(v)) is true    *)
(* for all e and all v that are strictly equal to themselves (every v but  *)
(* NaN).                                                                   *)
C7_RoundTrip ==
  \A x \in DOMAIN heap :
    (RoundTripCompare(x) /\ StrictEquals(heap[x].value, heap[x].value))
      => last.ret = Bool(TRUE)

(* The round trip of some(42) has been compared with some(42): true. *)
C7_Witness ==
  \E x \in DOMAIN heap :
    /\ RoundTripCompare(x)
    /\ heap[x].value = Num(42)
    /\ last.ret = Bool(TRUE)

(* The call in last is a conversion that has returned a new instance. *)
Converted(op, cls) ==
  /\ last.op = op
  /\ Cls(heap, last.this) = cls
  /\ last.kind = "return"
  /\ last.ret = Ref(Len(heap))
  /\ last.ret.n # last.this

(* The OptionSome instances that carry the value v. *)
SomeOf(v) == {y \in DOMAIN heap : heap[y] = OptionSome(v)}

(* some(v).to_result(e) is a new ResultOk carrying v (e is ignored). *)
SomeToResult ==
  (last.op = "to_result" /\ Cls(heap, last.this) = "OptionSome")
    => /\ Converted("to_result", "OptionSome")
       /\ heap[last.ret.n] = ResultOk(heap[last.this].value)

(* none().to_result(e) is a new ResultErr carrying the e supplied. *)
NoneToResult ==
  (last.op = "to_result" /\ Cls(heap, last.this) = "OptionNone")
    => /\ Converted("to_result", "OptionNone")
       /\ heap[last.ret.n] = ResultErr(last.arg)

(* err(e).to_option is a new OptionNone: none is true, the error is gone. *)
ErrToOption ==
  (last.op = "to_option" /\ Cls(heap, last.this) = "ResultErr")
    => /\ Converted("to_option", "ResultErr")
       /\ heap[last.ret.n] = OptionNone
       /\ dot_none(heap[last.ret.n])

(* C8, as claimed: some(v).to_result(e) is a ResultOk carrying v,          *)
(* none().to_result(e) a ResultErr carrying e, ok(v).to_option an          *)
(* OptionSome that compares equal to some(v), err(e).to_option an          *)
(* OptionNone, for all v and e.                                            *)
C8_Original ==
  /\ SomeToResult
  /\ NoneToResult
  /\ ErrToOption
  /\ (last.op = "to_option" /\ Cls(heap, last.this) = "ResultOk")
       => /\ Converted("to_option", "ResultOk")
          /\ Cls(heap, last.ret.n) = "OptionSome"
          /\ \A y \in SomeOf(heap[last.this].value) :
               dot_compare(heap, last.ret.n, y).ret = Bool(TRUE)

(* C8, amended: as claimed, but ok(v).to_option is an OptionSome carrying  *)
(* v, which compares equal to some(v) when v is strictly equal to itself   *)
(* (every v but NaN).                                                      *)
C8_Conversions ==
  /\ SomeToResult
  /\ NoneToResult
  /\ ErrToOption
  /\ (last.op = "to_option" /\ Cls(heap, last.this) = "ResultOk")
       => /\ Converted("to_option", "ResultOk")
          /\ heap[last.ret.n] = OptionSome(heap[last.this].value)
          /\ StrictEquals(heap[last.this].value, heap[last.this].value)
               => \A y \in SomeOf(heap[last.this].value) :
                    dot_compare(heap, last.ret.n, y).ret = Bool(TRUE)

(* none().to_result(42) has returned a ResultErr carrying 42. *)
C8_Witness ==
  /\ Converted("to_result", "OptionNone")
  /\ last.arg = Num(42)
  /\ heap[last.ret.n] = ResultErr(Num(42))

(* C9: every instance, however it was produced, has exactly one of its two *)
(* discriminants true: some and not none on OptionSome, none and not some  *)
(* on OptionNone, ok and not err on ResultOk, err and not ok (nor valid)   *)
(* on ResultErr.                                                           *)
C9_Discriminant ==
  \A i \in DOMAIN heap :
    LET o == heap[i]
    IN /\ IsOption(o) => /\ dot_some(o) # dot_none(o)
                         /\ dot_some(o) = (o.cls = "OptionSome")
       /\ IsResult(o) => /\ dot_ok(o) # dot_err(o)
                         /\ dot_ok(o) = (o.cls = "ResultOk")
       /\ o.cls = "ResultErr" => ~ResultErr_valid

(* A ResultErr made by map_err of a ResultErr, next to an Option. *)
C9_Witness ==
  /\ last.op = "map_err"
  /\ last.kind = "return"
  /\ last.ret.n # last.this
  /\ Cls(heap, last.ret.n) = "ResultErr"
  /\ \E i \in DOMAIN heap : IsOption(heap[i])

(* The instance of the receiver's variant that carries v. *)
SameVariant(cls, v) ==
  CASE cls = "OptionSome" -> OptionSome(v)
    [] cls = "ResultOk" -> ResultOk(v)
    [] cls = "ResultErr" -> ResultErr(v)

(* C10: map on OptionSome / ResultOk and map_err on ResultErr invoke the   *)
(* mapper exactly once, with the payload, and when the mapper returns w    *)
(* they return a new instance of the receiver's own variant carrying w,    *)
(* whatever w is (an instance of another variant, undefined).              *)
C10_MapKeepsVariant ==
  [][ActiveMap(heap, last')
       => LET args == MapperArgs(heap, last')
              r == MapperBody(last'.mapper, heap, args)
          IN /\ last'.calls = <<args>>
             /\ r.kind = "return"
                  => /\ last'.kind = "return"
                     /\ heap' = Append(r.heap,
                                       SameVariant(Cls(heap, last'.this), r.ret))
                     /\ last'.ret = Ref(Len(heap'))]_vars

(* some(v).map(() => none()) has returned an OptionSome carrying the       *)
(* OptionNone the mapper made.                                             *)
C10_Witness ==
  /\ last.op = "map"
  /\ Cls(heap, last.this) = "OptionSome"
  /\ last.mapper = "none"
  /\ last.kind = "return"
  /\ heap[last.ret.n] = OptionSome(Ref(last.ret.n - 1))
  /\ heap[last.ret.n - 1] = OptionNone

(* C11: expect, unwrap and unwrap_or on OptionSome / ResultOk return the   *)
(* value the instance carries (unwrap_or also when that value is           *)
(* undefined: the default is not used), expect_err on ResultErr returns    *)
(* the error, and unwrap_or on OptionNone / ResultErr returns the default  *)
(* it was given, unchanged.                                                *)
C11_Accessors ==
  /\ (last.op \in {"expect", "unwrap", "unwrap_or"}
      /\ Cls(heap, last.this) \in {"OptionSome", "ResultOk"})
       => last.kind = "return" /\ last.ret = heap[last.this].value
  /\ (last.op = "expect_err" /\ Cls(heap, last.this) = "ResultErr")
       => last.kind = "return" /\ last.ret = heap[last.this].error
  /\ (last.op = "unwrap_or"
      /\ Cls(heap, last.this) \in {"OptionNone", "ResultErr"})
       => last.kind = "return" /\ last.ret = last.arg

(* err(undefined).unwrap_or(42) has returned 42. *)
C11_Witness ==
  /\ last.op = "unwrap_or"
  /\ heap[last.this] = ResultErr(Undefined)
  /\ last.arg = Num(42)
  /\ last.ret = Num(42)

(* Every instance is, after the step, the instance it was before it. *)
InstancesKept ==
  \A i \in DOMAIN heap : i \in DOMAIN heap' /\ heap'[i] = heap[i]

(* The call l is one that hands back an instance. *)
Transforming(l) ==
  l.op \in {"map", "map_err", "and_then", "or_else", "to_result", "to_option"}

(* The call in last' returned the receiver, and constructed nothing. *)
ReturnedReceiver ==
  last'.ret = Ref(last'.this) /\ heap' = heap

(* The call in last' returned an instance constructed during the call. *)
ReturnedNew ==
  /\ last'.ret.t = "object"
  /\ last'.ret.n > Len(heap)
  /\ last'.ret.n <= Len(heap')

(* C12, as claimed: no call (one that throws included) changes the         *)
(* discriminant or the payload of an instance constructed before it, and   *)
(* every map, map_err, and_then, or_else, to_result and to_option that     *)
(* returns, returns a newly constructed instance or the unchanged          *)
(* receiver.                                                               *)
C12_Original ==
  [][/\ InstancesKept
     /\ (Transforming(last') /\ last'.kind = "return")
          => ReturnedReceiver \/ ReturnedNew]_vars

(* C12, amended: no call changes an instance constructed before it; map,   *)
(* map_err, to_result, to_option and the inactive and_then / or_else       *)
(* return a newly constructed instance or the unchanged receiver, and the  *)
(* active and_then / or_else return the instance the mapper returned,      *)
(* which may be one that existed before the call.                          *)
C12_NoMutation ==
  [][/\ InstancesKept
     /\ (Transforming(last') /\ last'.kind = "return")
          => \/ ReturnedReceiver
             \/ ReturnedNew
             \/ /\ ActiveBind(heap, last')
                /\ last'.ret = MapperBody(last'.mapper, heap,
                                          MapperArgs(heap, last')).ret]_vars

(* some(42).map(v => undefined) has returned a new OptionSome carrying     *)
(* undefined, and the receiver still carries 42.                           *)
C12_Witness ==
  /\ last.op = "map"
  /\ last.kind = "return"
  /\ last.ret.n # last.this
  /\ heap[last.this] = OptionSome(Num(42))
  /\ heap[last.ret.n] = OptionSome(Undefined)

(* The payload the call l, made on heap h, constructs an OptionSome with:  *)
(* the argument of some, what the mapper of map returned, the value of the *)
(* ResultOk converted, the argument of a mapper v => some(v).              *)
SuppliedPayload(h, l) ==
  CASE l.op = "some" -> l.arg
    [] l.op = "map" -> MapperBody(l.mapper, h, MapperArgs(h, l)).ret
    [] l.op = "to_option" -> h[l.this].value
    [] l.op \in {"and_then", "or_else"} -> Param(MapperArgs(h, l))

(* C13, as claimed: the value of every OptionSome is defined, whatever     *)
(* payload it was constructed with (an undefined one, the undefined a      *)
(* mapper returned).                                                       *)
C13_Original ==
  \A i \in DOMAIN heap :
    (heap[i].cls = "OptionSome" /\ dot_some(heap[i]))
      => heap[i].value # Undefined

(* C13, amended: the value of an OptionSome is the payload it was          *)
(* constructed with (the v of some(v), the f(v) of some(v).map(f), the v   *)
(* of ok(v).to_option, the argument of a mapper that returns some of it),  *)
(* so it is defined exactly when that payload is.                          *)
C13_PresentCarriesPayload ==
  [][\A i \in (Len(heap) + 1)..Len(heap') :
       heap'[i].cls = "OptionSome"
         => /\ dot_some(heap'[i])
            /\ heap'[i].value = SuppliedPayload(heap, last')
            /\ (heap'[i].value = Undefined)
                 = (SuppliedPayload(heap, last') = Undefined)]_vars

(* some(undefined).map(v => 42) has returned an OptionSome carrying 42. *)
C13_Witness ==
  /\ last.op = "map"
  /\ last.mapper = "num42"
  /\ heap[last.this] = OptionSome(Undefined)
  /\ heap[last.ret.n] = OptionSome(Num(42))

====
